---- MODULE Spec2Model ----
(***************************************************************************)
(* A model of the auth-lab server: the Principal store (Prisma "User"      *)
(* table), the express-session store, the Passport strategies and the     *)
(* HTTP handlers for register, login, the Google OAuth callback, me,      *)
(* logout and the owner-only nickname routes.                             *)
(*                                                                         *)
(* A handler that awaits the database more than once is split at its      *)
(* awaits, so that two requests can interleave between the read and the   *)
(* write (register: findUnique, then create; OAuth callback: findFirst,   *)
(* then upsert).  Everything a handler does after its last database call  *)
(* (req.logIn, the response) belongs to the step of that call.            *)
(***************************************************************************)
EXTENDS Integers, Sequences, FiniteSets, TLC

VARIABLES
    users,      \* the User table: a sequence of rows, users[i].id = i
    sessions,   \* the session store: session id -> session data
    cookie,     \* the 'sid' cookie each client holds (0: none)
    nextSid,    \* the next fresh session identifier
    inflight,   \* per client: the request suspended at an await, or Idle
    now,        \* the clock, in the unit of MaxAge
    last,       \* the response of the step just taken
    ui          \* per client: the state of the React application it runs

vars == <<users, sessions, cookie, nextSid, inflight, now, last, ui>>

(***************************************************************************)
(* Bounds of the model.                                                    *)
(***************************************************************************)
MaxUsers == 2
MaxTicks == 2
MaxViews == 1
MaxSid == 2

\* Two browsers, each with its own cookie jar and one request at a time.
Clients == {"c1", "c2"}

(***************************************************************************)
(* Request inputs.                                                         *)
(***************************************************************************)
NULL == "<null>"

\* The strings of the inputs that z.string().email() accepts.
ValidEmails == {"a@x.com", "b@x.com", "A@x.com"}
EmailInputs == {"a@x.com", "b@x.com", "not-an-email"}
\* Two spellings of one address.
CaseEmails == {"a@x.com", "A@x.com"}
\* "hunter2" is too short to register with but is accepted by the login form.
PasswordInputs == {"password1", "hunter2", ""}
Subjects == {"g-1"}
ProfileEmails == {"a@x.com", "b@x.com", NULL}
Ada == <<"A", "d", "a">>
Padded(n) == <<" ">> \o n \o <<"\t">>
NicknameInputs == {Padded(Ada), [i \in 1..51 |-> "x"]}

(***************************************************************************)
(* The Credential Hasher.  A digest embeds its salt, so verifying is       *)
(* recomputing; argon2.verify returns a Promise of the comparison.         *)
(***************************************************************************)
Argon2Hash(password) == "$argon2id$" \o password

Argon2Verify(digest, password) ==
    [t |-> "Promise", resolves |-> (digest = Argon2Hash(password))]

\* JavaScript's ToBoolean of a nullable string column and of a value.
\* A test that takes every value for truthy.
TruthyStringAlways(s) == TRUE

TruthyString(s) == s # NULL /\ s # ""

Truthy(v) ==
    CASE v.t = "Promise" -> TRUE
      [] v.t = "Boolean" -> v.v

(***************************************************************************)
(* The validators (zod schemas).                                           *)
(***************************************************************************)
MinPassword == 8
MaxPassword == 128
MaxNickname == 50

IsEmail(e) == e \in ValidEmails

\* The schema with both password limits exclusive.
RegisterSchemaStrict(e, p) ==
    IsEmail(e) /\ Len(p) > MinPassword /\ Len(p) < MaxPassword

RegisterSchemaOk(e, p) ==
    IsEmail(e) /\ Len(p) >= MinPassword /\ Len(p) <= MaxPassword

LoginSchemaOk(e, p) == IsEmail(e) /\ Len(p) >= 1

WhiteSpace == {" ", "\t", "\n", "\r"}
IsSpace(ch) == ch \in WhiteSpace

RECURSIVE TrimStart(_)
TrimStart(s) ==
    IF s # <<>> /\ IsSpace(Head(s)) THEN TrimStart(Tail(s)) ELSE s

RECURSIVE TrimEnd(_)
TrimEnd(s) ==
    IF s # <<>> /\ IsSpace(s[Len(s)])
        THEN TrimEnd(SubSeq(s, 1, Len(s) - 1))
        ELSE s

Trim(s) == TrimEnd(TrimStart(s))

\* The schema with .max(50) applied before .trim().
NicknameSchemaMaxBeforeTrim(n) == Len(n) <= MaxNickname

NicknameSchemaOk(n) == Len(Trim(n)) <= MaxNickname

(***************************************************************************)
(* The Principal store.  A row is                                          *)
(*   [id, email, passwordHash, provider, providerId, nickname];            *)
(* id is the AUTOINCREMENT primary key and email carries the unique index  *)
(* User_email_key.  There is no index on (provider, providerId).           *)
(***************************************************************************)
NoUser == [id |-> 0]

Ids == 1..Len(users)

\* A query without its select clause.
ProjectWholeRow(row) == row

Project(row) == [id |-> row.id, email |-> row.email, nickname |-> row.nickname]

FindByEmail(e) ==
    IF \E i \in Ids : users[i].email = e
        THEN users[CHOOSE i \in Ids : users[i].email = e]
        ELSE NoUser

FindById(id) == IF id \in Ids THEN users[id] ELSE NoUser

\* A lookup that finds no row.
FindFirstByProviderNever(provider, providerId) == NoUser

\* findFirst: the first row, in primary-key order, that matches.
FindFirstByProvider(provider, providerId) ==
    LET hits == {i \in Ids : users[i].provider = provider
                             /\ users[i].providerId = providerId}
    IN  IF hits = {} THEN NoUser
        ELSE users[CHOOSE i \in hits : \A j \in hits : i <= j]

\* The table without the unique index on email.
EmailKeyMissing(e) == FALSE

\* The unique index on email: an INSERT of a present email is rejected.
EmailKeyRejects(e) == \E i \in Ids : users[i].email = e

\* An INSERT that names neither provider nor providerId and so takes the
\* column defaults.
NewRowWithoutLink(e, hash, provider, providerId) ==
    [id |-> Len(users) + 1, email |-> e, passwordHash |-> hash,
     provider |-> "local", providerId |-> NULL, nickname |-> <<>>]

NewRow(e, hash, provider, providerId) ==
    [id |-> Len(users) + 1, email |-> e, passwordHash |-> hash,
     provider |-> provider, providerId |-> providerId, nickname |-> <<>>]

(***************************************************************************)
(* The session store (express-session MemoryStore) and Passport's session  *)
(* manager.  A session is [passportUser, userId, views, expires]; 0 is an  *)
(* absent user id.                                                         *)
(***************************************************************************)
MaxAge == 3600

\* A store that never tests the expiry of an entry.
LiveForever(sid) == sid \in DOMAIN sessions

Live(sid) == sid \in DOMAIN sessions /\ sessions[sid].expires > now

\* The session the middleware loads for a request of client c (0: none).
RequestSid(c) == IF cookie[c] # 0 /\ Live(cookie[c]) THEN cookie[c] ELSE 0

\* A store whose destroy clears every entry.
DestroyAll(store, sid) == [s \in {} |-> 0]

\* A store whose destroy removes nothing.
DestroyNothing(store, sid) == store

Destroy(store, sid) == [s \in (DOMAIN store) \ {sid} |-> store[s]]

\* A req.user that keeps the nickname the row had when it was created.
RequestUserAsCreated(c) ==
    LET sid == RequestSid(c) IN
    IF sid = 0 THEN NoUser
    ELSE IF FindById(sessions[sid].passportUser) = NoUser THEN NoUser
    ELSE [Project(FindById(sessions[sid].passportUser)) EXCEPT !.nickname = <<>>]

\* passport.session(): req.user, from deserializeUser on the stored id.
RequestUser(c) ==
    LET sid == RequestSid(c) IN
    IF sid = 0 THEN NoUser
    ELSE IF FindById(sessions[sid].passportUser) = NoUser THEN NoUser
    ELSE Project(FindById(sessions[sid].passportUser))

\* The id of the principal client c's session resolves to (0: none).
SessionPrincipal(c) == RequestUser(c).id

\* What the sid cookie of client c's next request refers to.
Presented(c) ==
    IF cookie[c] = 0 THEN "none"
    ELSE IF cookie[c] \notin DOMAIN sessions THEN "unknown"
    ELSE IF ~Live(cookie[c]) THEN "expired"
    ELSE "live"

\* passport.session() deletes the stored user id when deserializeUser finds
\* no row for it.
Deserialized(sess) ==
    IF FindById(sess.passportUser) = NoUser
        THEN [sess EXCEPT !.passportUser = 0]
        ELSE sess

\* The store after a request that neither logs in nor out: a stale entry
\* was dropped when it was read, a loaded one is touched on the response.
SessionsAfter(c) ==
    IF cookie[c] \in DOMAIN sessions
        THEN IF Live(cookie[c])
                THEN [sessions EXCEPT ![cookie[c]] =
                        [Deserialized(@) EXCEPT !.expires = now + MaxAge]]
                ELSE Destroy(sessions, cookie[c])
        ELSE sessions

\* The store after the session middleware has looked up client c's cookie:
\* an entry found expired is dropped by that read.
DropStale(store, c) ==
    IF cookie[c] \in DOMAIN store /\ ~Live(cookie[c])
        THEN Destroy(store, cookie[c])
        ELSE store

\* A logIn that leaves the request's session as it was.
LogInKeepsSession(c, reqSid, id, userId) ==
    UNCHANGED <<sessions, cookie, nextSid>>

\* req.logIn: the request's session is regenerated under a fresh
\* identifier, the user id serialized into it, and the cookie re-issued.
LogIn(c, reqSid, id, userId) ==
    /\ nextSid <= MaxSid
    /\ sessions' = Destroy(DropStale(sessions, c), reqSid) @@
                   (nextSid :> [passportUser |-> id, userId |-> userId,
                                views |-> 0, expires |-> now + MaxAge])
    /\ cookie' = [cookie EXCEPT ![c] = nextSid]
    /\ nextSid' = nextSid + 1

Idle == [op |-> "idle"]

\* A JSON response, and a redirect.
Response(op, c, status, error, user, req) ==
    [op |-> op, client |-> c, status |-> status, error |-> error,
     location |-> NULL, user |-> user, req |-> req]

Redirect(op, c, location, user, req) ==
    [op |-> op, client |-> c, status |-> 302, error |-> "",
     location |-> location, user |-> user, req |-> req]

Pending == [op |-> "pending"]

(***************************************************************************)
(* POST /auth/register                                                     *)
(***************************************************************************)
\* The handler without its check for an existing row.
EmailTakenUnchecked(e) == FALSE

\* 'existing' of the handler: the row findUnique returns is truthy.
EmailTaken(e) == FindByEmail(e) # NoUser

\* registerSchema.parse and the findUnique on the email.
RegisterStart(c, e, p) ==
    /\ inflight[c] = Idle
    /\ IF ~RegisterSchemaOk(e, p)
        THEN /\ last' = Response("register", c, 400, "Invalid input", NoUser,
                                 [email |-> e, password |-> p])
             /\ sessions' = SessionsAfter(c)
             /\ UNCHANGED <<users, cookie, nextSid, inflight, now>>
        ELSE IF EmailTaken(e)
        THEN /\ last' = Response("register", c, 400, "Email already registered",
                                 NoUser, [email |-> e, password |-> p])
             /\ sessions' = SessionsAfter(c)
             /\ UNCHANGED <<users, cookie, nextSid, inflight, now>>
        ELSE /\ inflight' = [inflight EXCEPT ![c] =
                    [op |-> "register", email |-> e, password |-> p]]
             /\ last' = Pending
             /\ UNCHANGED <<users, sessions, cookie, nextSid, now>>

\* argon2.hash, prisma.user.create, req.logIn and the response; a rejected
\* INSERT is no ZodError and goes to the global error handler.
RegisterCreate(c) ==
    /\ inflight[c] # Idle
    /\ inflight[c].op = "register"
    /\ LET r == inflight[c]
           req == [email |-> r.email, password |-> r.password]
           row == NewRow(r.email, Argon2Hash(r.password), "local", NULL)
       IN  IF EmailKeyRejects(r.email)
            THEN /\ last' = Response("register", c, 500, "Server error", NoUser, req)
                 /\ sessions' = SessionsAfter(c)
                 /\ UNCHANGED <<users, cookie, nextSid>>
            ELSE /\ Len(users) < MaxUsers
                 /\ users' = Append(users, row)
                 /\ LogIn(c, RequestSid(c), row.id, row.id)
                 /\ last' = Response("register", c, 200, "", Project(row), req)
    /\ inflight' = [inflight EXCEPT ![c] = Idle]
    /\ UNCHANGED now

(***************************************************************************)
(* POST /auth/login and the LocalStrategy verify callback                  *)
(***************************************************************************)
Fail(message) == [ok |-> FALSE, message |-> message, user |-> NoUser]

\* LocalVerify without the guard on a missing passwordHash.
LocalVerifyNoHashGuard(e, p) ==
    LET user == FindByEmail(e) IN
    IF user = NoUser
        THEN Fail("Invalid Credentials")
        ELSE LET ok == Argon2Verify(user.passwordHash, p) IN
             IF ~Truthy(ok)
                THEN Fail("Invalid Credentials")
                ELSE [ok |-> TRUE, message |-> "", user |-> Project(user)]

LocalVerify(e, p) ==
    LET user == FindByEmail(e) IN
    IF user = NoUser \/ ~TruthyString(user.passwordHash)
        THEN Fail("Invalid Credentials")
        ELSE LET ok == Argon2Verify(user.passwordHash, p) IN
             IF ~Truthy(ok)
                THEN Fail("Invalid Credentials")
                ELSE [ok |-> TRUE, message |-> "", user |-> Project(user)]

\* A handler that calls req.login with the row of the email before it
\* looks at the outcome of the strategy.
LoginBindsUnverified(c, e, p) ==
    /\ inflight[c] = Idle
    /\ LET req == [email |-> e, password |-> p]
           v == LocalVerify(e, p)
           row == FindByEmail(e)
       IN  IF ~LoginSchemaOk(e, p) \/ row = NoUser
            THEN /\ last' = Response("login", c,
                                     IF LoginSchemaOk(e, p) THEN 401 ELSE 400,
                                     "Invalid input", NoUser, req)
                 /\ sessions' = SessionsAfter(c)
                 /\ UNCHANGED <<cookie, nextSid>>
            ELSE /\ LogIn(c, RequestSid(c), row.id, row.id)
                 /\ last' = IF v.ok
                    THEN Response("login", c, 200, "", v.user, req)
                    ELSE Response("login", c, 401, v.message, NoUser, req)
    /\ UNCHANGED <<users, inflight, now>>

Login(c, e, p) ==
    /\ inflight[c] = Idle
    /\ LET req == [email |-> e, password |-> p] IN
       IF ~LoginSchemaOk(e, p)
        THEN /\ last' = Response("login", c, 400, "Invalid input", NoUser, req)
             /\ sessions' = SessionsAfter(c)
             /\ UNCHANGED <<cookie, nextSid>>
        ELSE LET v == LocalVerify(e, p) IN
             IF ~v.ok
                THEN /\ last' = Response("login", c, 401, v.message, NoUser, req)
                     /\ sessions' = SessionsAfter(c)
                     /\ UNCHANGED <<cookie, nextSid>>
                ELSE /\ LogIn(c, RequestSid(c), v.user.id, v.user.id)
                     /\ last' = Response("login", c, 200, "", v.user, req)
    /\ UNCHANGED <<users, inflight, now>>

(***************************************************************************)
(* GET /auth/google/callback and the GoogleStrategy verify callback        *)
(***************************************************************************)
ClientOrigin == "http://localhost:5173"

\* The callback with a create in place of the upsert.
UpsertAlwaysCreates(e, provider, providerId) ==
    Append(users, NewRow(e, NULL, provider, providerId))

\* The upsert with providerId left out of its update.
UpsertUpdateDropsLink(e, provider, providerId) ==
    LET row == FindByEmail(e) IN
    IF row # NoUser
        THEN [users EXCEPT ![row.id].provider = provider]
        ELSE Append(users, NewRow(e, NULL, provider, providerId))

\* The upsert with an update that also clears the password hash.
UpsertUpdateClearsHash(e, provider, providerId) ==
    LET row == FindByEmail(e) IN
    IF row # NoUser
        THEN [users EXCEPT ![row.id].provider = provider,
                           ![row.id].providerId = providerId,
                           ![row.id].passwordHash = NULL]
        ELSE Append(users, NewRow(e, NULL, provider, providerId))

\* prisma.user.upsert({where: {email}, update: {provider, providerId},
\* create: {email, provider, providerId, nickname: ''}}): one atomic
\* INSERT .. ON CONFLICT (email) DO UPDATE.
UpsertByEmail(e, provider, providerId) ==
    LET row == FindByEmail(e) IN
    IF row # NoUser
        THEN [users EXCEPT ![row.id].provider = provider,
                           ![row.id].providerId = providerId]
        ELSE Append(users, NewRow(e, NULL, provider, providerId))

\* The profile check and the findFirst on (provider, providerId).  In the
\* response, 'via' names the query that resolved the user and 'prior' the
\* row that query met (NoUser: none).
OAuthStart(c, s, e) ==
    /\ inflight[c] = Idle
    /\ LET req == [subject |-> s, email |-> e, via |-> "findFirst",
                   prior |-> NoUser]
           user == FindFirstByProvider("google", s)
       IN  IF ~TruthyString(e)
            THEN /\ last' = Redirect("oauth", c, "/auth/failure", NoUser, req)
                 /\ sessions' = SessionsAfter(c)
                 /\ UNCHANGED <<cookie, nextSid, inflight>>
            ELSE IF user # NoUser
            THEN /\ LogIn(c, RequestSid(c), user.id, 0)
                 /\ last' = Redirect("oauth", c, ClientOrigin, Project(user),
                                     [req EXCEPT !.prior = user])
                 /\ UNCHANGED inflight
            ELSE /\ inflight' = [inflight EXCEPT ![c] =
                        [op |-> "oauth", subject |-> s, email |-> e]]
                 /\ last' = Pending
                 /\ UNCHANGED <<sessions, cookie, nextSid>>
    /\ UNCHANGED <<users, now>>

\* The upsert, req.logIn and the redirect to the client.
OAuthUpsert(c) ==
    /\ inflight[c] # Idle
    /\ inflight[c].op = "oauth"
    /\ LET r == inflight[c]
           after == UpsertByEmail(r.email, "google", r.subject)
           id == IF FindByEmail(r.email) # NoUser
                    THEN FindByEmail(r.email).id
                    ELSE Len(users) + 1
       IN  /\ Len(after) <= MaxUsers
           /\ users' = after
           /\ LogIn(c, RequestSid(c), id, 0)
           /\ last' = Redirect("oauth", c, ClientOrigin, Project(after[id]),
                               [subject |-> r.subject, email |-> r.email,
                                via |-> "upsert",
                                prior |-> FindByEmail(r.email)])
    /\ inflight' = [inflight EXCEPT ![c] = Idle]
    /\ UNCHANGED now

(***************************************************************************)
(* GET /auth/me and POST /auth/logout                                      *)
(***************************************************************************)
\* GET /auth/me behind a guard that rejects a request without a user.
MeRequiresUser(c) ==
    /\ inflight[c] = Idle
    /\ last' = Response("me", c, IF RequestUser(c) = NoUser THEN 401 ELSE 200,
                        IF RequestUser(c) = NoUser THEN "Unauthorized" ELSE "",
                        RequestUser(c), [session |-> Presented(c)])
    /\ sessions' = SessionsAfter(c)
    /\ UNCHANGED <<users, cookie, nextSid, inflight, now>>

Me(c) ==
    /\ inflight[c] = Idle
    /\ last' = Response("me", c, 200, "", RequestUser(c),
                        [session |-> Presented(c)])
    /\ sessions' = SessionsAfter(c)
    /\ UNCHANGED <<users, cookie, nextSid, inflight, now>>

\* The handler answering ok without touching the session or the cookie.
LogoutKeepsSession(c) ==
    /\ inflight[c] = Idle
    /\ last' = Response("logout", c, 200, "", NoUser, [as |-> RequestUser(c)])
    /\ UNCHANGED <<users, sessions, cookie, nextSid, inflight, now>>

\* req.logout drops the user and regenerates the session, the handler then
\* destroys the regenerated session and clears the cookie.  In the response,
\* 'as' is the user the request came in with.
Logout(c) ==
    /\ inflight[c] = Idle
    /\ sessions' = Destroy(sessions, cookie[c])
    /\ cookie' = [cookie EXCEPT ![c] = 0]
    /\ last' = Response("logout", c, 200, "", NoUser, [as |-> RequestUser(c)])
    /\ UNCHANGED <<users, nextSid, inflight, now>>

(***************************************************************************)
(* GET and PUT /api/users/:id/nickname                                     *)
(***************************************************************************)
\* The :id of a request: the id of a row, or one past the last.
ResourceIds == 1..(Len(users) + 1)

\* The routes without the requireAuth middleware.
RequireAuthUnchecked(user) == TRUE

RequireAuth(user) == user # NoUser

\* The routes without the ownership comparison.
IsOwnerUnchecked(user, targetId) == TRUE

IsOwner(user, targetId) == user.id = targetId

\* A handler that answers with an empty nickname whatever the row holds.
NicknameOfAlwaysEmpty(row) == <<>>

\* user?.nickname ?? ''
NicknameOf(row) == IF row = NoUser THEN <<>> ELSE row.nickname

\* An update whose WHERE clause is missing.
UpdateNicknameEveryRow(id, nickname) ==
    [i \in DOMAIN users |-> [users[i] EXCEPT !.nickname = nickname]]

\* prisma.user.update({where: {id}, data: {nickname}})
UpdateNickname(id, nickname) == [users EXCEPT ![id].nickname = nickname]

NicknameBody(op, c, status, error, nickname, req) ==
    [op |-> op, client |-> c, status |-> status, error |-> error,
     location |-> NULL, user |-> NoUser, nickname |-> nickname, req |-> req]

GetNickname(c, targetId) ==
    /\ inflight[c] = Idle
    /\ LET user == RequestUser(c)
           req == [id |-> targetId, as |-> user, session |-> Presented(c)]
       IN  last' =
            IF ~RequireAuth(user)
                THEN NicknameBody("getNickname", c, 401, "Unauthorized", <<>>, req)
            ELSE IF ~IsOwner(user, targetId)
                THEN NicknameBody("getNickname", c, 403, "Forbidden", <<>>, req)
            ELSE NicknameBody("getNickname", c, 200, "",
                              NicknameOf(FindById(targetId)), req)
    /\ sessions' = SessionsAfter(c)
    /\ UNCHANGED <<users, cookie, nextSid, inflight, now>>

PutNickname(c, targetId, n) ==
    /\ inflight[c] = Idle
    /\ LET user == RequestUser(c)
           req == [id |-> targetId, as |-> user, nickname |-> n,
                   session |-> Presented(c)]
       IN  IF ~RequireAuth(user)
            THEN /\ last' = NicknameBody("putNickname", c, 401, "Unauthorized", <<>>, req)
                 /\ UNCHANGED users
           ELSE IF ~IsOwner(user, targetId)
            THEN /\ last' = NicknameBody("putNickname", c, 403, "Forbidden", <<>>, req)
                 /\ UNCHANGED users
           ELSE IF ~NicknameSchemaOk(n) \/ FindById(targetId) = NoUser
            THEN /\ last' = NicknameBody("putNickname", c, 400, "Invalid input", <<>>, req)
                 /\ UNCHANGED users
           ELSE /\ users' = UpdateNickname(targetId, Trim(n))
                /\ last' = NicknameBody("putNickname", c, 200, "",
                                        users'[targetId].nickname, req)
    /\ sessions' = SessionsAfter(c)
    /\ UNCHANGED <<cookie, nextSid, inflight, now>>

(***************************************************************************)
(* GET /debug/session, mounted after the session middleware and before     *)
(* passport: it counts its visits in the session.  The write marks the     *)
(* session modified, so it is saved (a new one under a fresh identifier    *)
(* when the request loaded none) and the cookie is set again.              *)
(***************************************************************************)
DebugBody(c, views, userId, req) ==
    [op |-> "debugSession", client |-> c, status |-> 200, error |-> "",
     location |-> NULL, user |-> NoUser, views |-> views, userId |-> userId,
     req |-> req]

DebugSession(c) ==
    /\ inflight[c] = Idle
    /\ LET sid == RequestSid(c)
           req == [session |-> Presented(c)]
       IN  IF sid # 0
            THEN /\ sessions[sid].views < MaxViews
                 /\ sessions' = [sessions EXCEPT
                                    ![sid].views = @ + 1,
                                    ![sid].expires = now + MaxAge]
                 /\ last' = DebugBody(c, sessions[sid].views + 1,
                                      sessions[sid].userId, req)
                 /\ UNCHANGED <<cookie, nextSid>>
            ELSE /\ nextSid <= MaxSid
                 /\ sessions' = Destroy(sessions, cookie[c]) @@
                        (nextSid :> [passportUser |-> 0, userId |-> 0,
                                     views |-> 1, expires |-> now + MaxAge])
                 /\ cookie' = [cookie EXCEPT ![c] = nextSid]
                 /\ nextSid' = nextSid + 1
                 /\ last' = DebugBody(c, 1, 0, req)
    /\ UNCHANGED <<users, inflight, now>>

(***************************************************************************)
(* GET /debug/users, mounted after the session middleware and before       *)
(* passport: prisma.user.findMany({take: 5}) with no select, so the body   *)
(* is the first rows of the table with every column.                       *)
(***************************************************************************)
TakeUsers == 5

FindMany(take) ==
    SubSeq(users, 1, IF Len(users) < take THEN Len(users) ELSE take)

DebugUsers(c) ==
    /\ inflight[c] = Idle
    /\ last' = [op |-> "debugUsers", client |-> c, status |-> 200,
                error |-> "", location |-> NULL, user |-> NoUser,
                rows |-> FindMany(TakeUsers),
                req |-> [session |-> Presented(c)]]
    /\ sessions' = IF RequestSid(c) # 0
                    THEN [sessions EXCEPT
                            ![RequestSid(c)].expires = now + MaxAge]
                    ELSE DropStale(sessions, c)
    /\ UNCHANGED <<users, cookie, nextSid, inflight, now>>

(***************************************************************************)
(* The environment: the clock advances by half a session lifetime, and    *)
(* the User table is created anew while the server keeps running.          *)
(***************************************************************************)
TickStep == MaxAge \div 2

Tick ==
    /\ now < MaxTicks * TickStep
    /\ now' = now + TickStep
    /\ last' = [op |-> "tick"]
    /\ UNCHANGED <<users, sessions, cookie, nextSid, inflight>>

\* A client sends a request under a sid cookie the server issued earlier,
\* to this client or to another.
PresentCookie(c, sid) ==
    /\ inflight[c] = Idle
    /\ sid \in 1..(nextSid - 1)
    /\ sid # cookie[c]
    /\ cookie' = [cookie EXCEPT ![c] = sid]
    /\ last' = [op |-> "cookie"]
    /\ UNCHANGED <<users, sessions, nextSid, inflight, now>>

DatabaseReset ==
    /\ users # <<>>
    /\ users' = <<>>
    /\ last' = [op |-> "reset"]
    /\ UNCHANGED <<sessions, cookie, nextSid, inflight, now>>

(***************************************************************************)
(* Requests that meet a failing store.  A rejected query or a store        *)
(* callback with an error takes the path the code gives it: a catch        *)
(* block, or next(err) and the global error handler.  In a response,       *)
(* 'fault' names the call that failed.                                     *)
(***************************************************************************)
ServerError(op, c, req) == Response(op, c, 500, "Server error", NoUser, req)

RestoreFaults == {"store.get", "deserializeUser"}
RestoredOps == {"me", "getNickname", "putNickname"}

\* Session restoration in front of a route: the session middleware passes
\* the error of store.get to next; deserializeUser catches the rejection of
\* findUnique and calls done(e), which passport passes to next.
RestoreFails(c, op, fault) ==
    /\ inflight[c] = Idle
    /\ LET req == [session |-> Presented(c), fault |-> fault] IN
       \/ /\ fault = "store.get"
          /\ cookie[c] # 0
          /\ last' = ServerError(op, c, req)
          /\ UNCHANGED sessions
       \/ /\ fault = "deserializeUser"
          /\ RequestSid(c) # 0
          /\ sessions[RequestSid(c)].passportUser # 0
          /\ last' = ServerError(op, c, req)
          /\ sessions' = [sessions EXCEPT
                            ![RequestSid(c)].expires = now + MaxAge]
    /\ UNCHANGED <<users, cookie, nextSid, inflight, now>>

LogoutFaults == {"save", "regenerate", "destroy"}

\* POST /auth/logout on a loaded session.  req.logout removes the user from
\* the session, saves it and regenerates it (which destroys the stored
\* entry); an error of either reaches the handler's callback, which calls
\* next(err).  The callback of the handler's own req.session.destroy takes
\* no error argument.
LogoutFails(c, fault) ==
    /\ inflight[c] = Idle
    /\ RequestSid(c) # 0
    /\ LET sid == RequestSid(c)
           req == [as |-> RequestUser(c), fault |-> fault]
       IN  \/ /\ fault = "save"
              /\ last' = ServerError("logout", c, req)
              /\ UNCHANGED <<sessions, cookie>>
           \/ /\ fault = "regenerate"
              /\ last' = ServerError("logout", c, req)
              /\ sessions' = [sessions EXCEPT ![sid].passportUser = 0]
              /\ UNCHANGED cookie
           \/ /\ fault = "destroy"
              /\ last' = Response("logout", c, 200, "", NoUser, req)
              /\ sessions' = Destroy(sessions, sid)
              /\ cookie' = [cookie EXCEPT ![c] = 0]
    /\ UNCHANGED <<users, nextSid, inflight, now>>

\* POST /auth/register when findUnique rejects: the catch block passes what
\* is no ZodError to next.
RegisterLookupFails(c, e, p) ==
    /\ inflight[c] = Idle
    /\ RegisterSchemaOk(e, p)
    /\ last' = ServerError("register", c,
                           [email |-> e, password |-> p, fault |-> "findUnique"])
    /\ sessions' = SessionsAfter(c)
    /\ UNCHANGED <<users, cookie, nextSid, inflight, now>>

\* PUT /api/users/:id/nickname when the update rejects: the catch block
\* answers every exception alike.
PutNicknameUpdateFails(c, targetId, n) ==
    /\ inflight[c] = Idle
    /\ RequireAuth(RequestUser(c))
    /\ IsOwner(RequestUser(c), targetId)
    /\ NicknameSchemaOk(n)
    /\ last' = NicknameBody("putNickname", c, 400, "Invalid input", <<>>,
                            [id |-> targetId, as |-> RequestUser(c),
                             nickname |-> n, session |-> Presented(c),
                             fault |-> "update"])
    /\ sessions' = SessionsAfter(c)
    /\ UNCHANGED <<users, cookie, nextSid, inflight, now>>

(***************************************************************************)
(* The React client.  AuthProvider holds the state 'user' and 'loading';   *)
(* its effect calls refresh on mount, and under StrictMode the effect runs *)
(* twice.  Of one client the model keeps the number of effect runs, the    *)
(* refresh calls waiting for GET /auth/me ('awaiting') and those between   *)
(* their setUser and the setLoading of their finally block ('finishing'),  *)
(* and 'view', what Protected returned at the last render.  Every state    *)
(* change renders.                                                         *)
(***************************************************************************)
StrictEffects == 2

Unmounted ==
    [effects |-> 0, awaiting |-> 0, finishing |-> 0,
     loading |-> TRUE, user |-> NoUser, view |-> "none"]

Protected(user, loading) ==
    IF loading THEN "Loading"
    ELSE IF user = NoUser THEN "Navigate"
    ELSE "children"

\* The component state st after a render.
Rendered(st) == [st EXCEPT !.view = Protected(st.user, st.loading)]

Rendering == [op |-> "render"]

\* useEffect(() => { void refresh(); }, []): refresh sends GET /auth/me.
UseEffect(c) ==
    /\ ui[c].effects < StrictEffects
    /\ ui' = [ui EXCEPT ![c] = Rendered([@ EXCEPT !.effects = @ + 1,
                                                  !.awaiting = @ + 1])]
    /\ last' = Rendering
    /\ UNCHANGED <<users, sessions, cookie, nextSid, inflight, now>>

\* refresh, try block: the server answers GET /auth/me and setUser(u || null).
RefreshResolves(c) ==
    /\ ui[c].awaiting > 0
    /\ Me(c)
    /\ ui' = [ui EXCEPT ![c] = Rendered([@ EXCEPT !.awaiting = @ - 1,
                                                  !.finishing = @ + 1,
                                                  !.user = last'.user])]

\* refresh, catch block: the request is answered 500 and setUser(null).
RefreshRejects(c, fault) ==
    /\ ui[c].awaiting > 0
    /\ RestoreFails(c, "me", fault)
    /\ ui' = [ui EXCEPT ![c] = Rendered([@ EXCEPT !.awaiting = @ - 1,
                                                  !.finishing = @ + 1,
                                                  !.user = NoUser])]

\* A refresh whose finally block is missing.
RefreshFinallyKeepsLoading(c) ==
    /\ ui[c].finishing > 0
    /\ ui' = [ui EXCEPT ![c] = Rendered([@ EXCEPT !.finishing = @ - 1])]
    /\ last' = Rendering
    /\ UNCHANGED <<users, sessions, cookie, nextSid, inflight, now>>

\* refresh, finally block: setLoading(false).
RefreshFinally(c) ==
    /\ ui[c].finishing > 0
    /\ ui' = [ui EXCEPT ![c] = Rendered([@ EXCEPT !.finishing = @ - 1,
                                                  !.loading = FALSE])]
    /\ last' = Rendering
    /\ UNCHANGED <<users, sessions, cookie, nextSid, inflight, now>>

\* register of the provider: POST /auth/register, and setUser(u) when the
\* call resolves; a rejected call throws before setUser.
ClientRegister(c, e, p) ==
    /\ ui[c].effects > 0
    /\ RegisterStart(c, e, p)
    /\ UNCHANGED ui

ClientRegisterSettles(c) ==
    /\ ui[c].effects > 0
    /\ RegisterCreate(c)
    /\ ui' = IF last'.status = 200
                THEN [ui EXCEPT ![c] = Rendered([@ EXCEPT !.user = last'.user])]
                ELSE ui

\* login of the provider: POST /auth/login, and setUser(u) when the call
\* resolves.
ClientLogin(c, e, p) ==
    /\ ui[c].effects > 0
    /\ Login(c, e, p)
    /\ ui' = IF last'.status = 200
                THEN [ui EXCEPT ![c] = Rendered([@ EXCEPT !.user = last'.user])]
                ELSE ui

\* logout of the provider, behind the button of the Profile page that
\* Protected wraps: POST /auth/logout, then setUser(null).
ClientLogout(c) ==
    /\ ui[c].view = "children"
    /\ Logout(c)
    /\ ui' = [ui EXCEPT ![c] = Rendered([@ EXCEPT !.user = NoUser])]

(***************************************************************************)
(* The server: any client may send any request at any time.                *)
(***************************************************************************)
Init ==
    /\ users = <<>>
    /\ sessions = [s \in {} |-> 0]
    /\ cookie = [c \in Clients |-> 0]
    /\ nextSid = 1
    /\ inflight = [c \in Clients |-> Idle]
    /\ now = 0
    /\ last = [op |-> "init"]
    /\ ui = [c \in Clients |-> Unmounted]

Next ==
    \/ \E c \in Clients, e \in EmailInputs, p \in PasswordInputs :
            RegisterStart(c, e, p) /\ UNCHANGED ui
    \/ \E c \in Clients : RegisterCreate(c) /\ UNCHANGED ui
    \/ \E c \in Clients, e \in EmailInputs, p \in PasswordInputs :
            Login(c, e, p) /\ UNCHANGED ui
    \/ \E c \in Clients, s \in Subjects, e \in ProfileEmails :
            OAuthStart(c, s, e) /\ UNCHANGED ui
    \/ \E c \in Clients : OAuthUpsert(c) /\ UNCHANGED ui
    \/ \E c \in Clients : Me(c) /\ UNCHANGED ui
    \/ \E c \in Clients : Logout(c) /\ UNCHANGED ui
    \/ \E c \in Clients, id \in ResourceIds :
            GetNickname(c, id) /\ UNCHANGED ui
    \/ \E c \in Clients, id \in ResourceIds, n \in NicknameInputs :
            PutNickname(c, id, n) /\ UNCHANGED ui

Spec == Init /\ [][Next]_vars

(***************************************************************************)
(* The server over time: one account, the session routes, the clock and   *)
(* the table reset.                                                        *)
(***************************************************************************)
SessionEmail == "a@x.com"
SessionPassword == "password1"

NextSession ==
    \/ \E c \in Clients :
            RegisterStart(c, SessionEmail, SessionPassword) /\ UNCHANGED ui
    \/ \E c \in Clients : RegisterCreate(c) /\ UNCHANGED ui
    \/ \E c \in Clients :
            Login(c, SessionEmail, SessionPassword) /\ UNCHANGED ui
    \/ \E c \in Clients : Me(c) /\ UNCHANGED ui
    \/ \E c \in Clients : Logout(c) /\ UNCHANGED ui
    \/ \E c \in Clients, id \in ResourceIds :
            GetNickname(c, id) /\ UNCHANGED ui
    \/ \E c \in Clients, id \in ResourceIds :
            PutNickname(c, id, Padded(Ada)) /\ UNCHANGED ui
    \/ \E c \in Clients : DebugSession(c) /\ UNCHANGED ui
    \/ Tick /\ UNCHANGED ui
    \/ DatabaseReset /\ UNCHANGED ui

SpecSession == Init /\ [][NextSession]_vars

(***************************************************************************)
(* The server over time with clients that keep and replay the cookies      *)
(* they were sent.                                                         *)
(***************************************************************************)
NextReplay ==
    \/ \E c \in Clients :
            RegisterStart(c, SessionEmail, SessionPassword) /\ UNCHANGED ui
    \/ \E c \in Clients : RegisterCreate(c) /\ UNCHANGED ui
    \/ \E c \in Clients :
            Login(c, SessionEmail, SessionPassword) /\ UNCHANGED ui
    \/ \E c \in Clients : Me(c) /\ UNCHANGED ui
    \/ \E c \in Clients : Logout(c) /\ UNCHANGED ui
    \/ \E c \in Clients : DebugSession(c) /\ UNCHANGED ui
    \/ \E c \in Clients, sid \in 1..MaxSid :
            PresentCookie(c, sid) /\ UNCHANGED ui
    \/ Tick /\ UNCHANGED ui

SpecReplay == Init /\ [][NextReplay]_vars

(***************************************************************************)
(* The server with every route that establishes a session, and the debug   *)
(* route that creates unauthenticated ones.                                *)
(***************************************************************************)
NextEstablish ==
    \/ \E c \in Clients, e \in {SessionEmail, "b@x.com"} :
            RegisterStart(c, e, SessionPassword) /\ UNCHANGED ui
    \/ \E c \in Clients : RegisterCreate(c) /\ UNCHANGED ui
    \/ \E c \in Clients :
            Login(c, SessionEmail, SessionPassword) /\ UNCHANGED ui
    \/ \E c \in Clients, s \in Subjects, e \in {SessionEmail, "b@x.com"} :
            OAuthStart(c, s, e) /\ UNCHANGED ui
    \/ \E c \in Clients : OAuthUpsert(c) /\ UNCHANGED ui
    \/ \E c \in Clients : DebugSession(c) /\ UNCHANGED ui
    \/ \E c \in Clients : Logout(c) /\ UNCHANGED ui

SpecEstablish == Init /\ [][NextEstablish]_vars

(***************************************************************************)
(* The server started on a database file that an earlier run has filled:   *)
(* the MemoryStore starts empty, the User table is what that run left.     *)
(* The table here is the one left by a Google callback for g-1 asserting   *)
(* a@x.com followed by a registration of b@x.com.  Callbacks come for two   *)
(* subjects.                                                               *)
(***************************************************************************)
LinkSubjects == {"g-1", "g-2"}

SeedTable ==
    << [id |-> 1, email |-> "a@x.com", passwordHash |-> NULL,
        provider |-> "google", providerId |-> "g-1", nickname |-> <<>>],
       [id |-> 2, email |-> "b@x.com",
        passwordHash |-> Argon2Hash(SessionPassword),
        provider |-> "local", providerId |-> NULL, nickname |-> <<>>] >>

InitLink ==
    /\ users \in {<<>>, SeedTable}
    /\ sessions = [s \in {} |-> 0]
    /\ cookie = [c \in Clients |-> 0]
    /\ nextSid = 1
    /\ inflight = [c \in Clients |-> Idle]
    /\ now = 0
    /\ last = [op |-> "init"]
    /\ ui = [c \in Clients |-> Unmounted]

NextLink ==
    \/ \E c \in Clients, e \in {"a@x.com", "b@x.com"} :
            RegisterStart(c, e, SessionPassword) /\ UNCHANGED ui
    \/ \E c \in Clients : RegisterCreate(c) /\ UNCHANGED ui
    \/ \E c \in Clients, e \in {"a@x.com", "b@x.com"},
          p \in {SessionPassword, "hunter2"} : Login(c, e, p) /\ UNCHANGED ui
    \/ \E c \in Clients, s \in LinkSubjects, e \in {"a@x.com", "b@x.com"} :
            OAuthStart(c, s, e) /\ UNCHANGED ui
    \/ \E c \in Clients : OAuthUpsert(c) /\ UNCHANGED ui
    \/ \E c \in Clients : DebugUsers(c) /\ UNCHANGED ui

SpecLink == InitLink /\ [][NextLink]_vars

(***************************************************************************)
(* The server at the limits of its validators: passwords and nicknames     *)
(* of the lengths around the schemas' bounds.                              *)
(***************************************************************************)
RECURSIVE Repeat(_, _)
Repeat(ch, n) == IF n = 0 THEN "" ELSE ch \o Repeat(ch, n - 1)

BoundaryPasswords ==
    {Repeat("x", n) : n \in {MinPassword - 1, MinPassword,
                              MaxPassword, MaxPassword + 1}}

Xs(n) == [i \in 1..n |-> "x"]

BoundaryNicknames ==
    {<<>>, <<" ", "\n">>, Padded(Ada),
     Xs(MaxNickname), Padded(Xs(MaxNickname)), Xs(MaxNickname + 1)}

NextBoundary ==
    \/ \E c \in Clients, e \in EmailInputs, p \in BoundaryPasswords :
            RegisterStart(c, e, p) /\ UNCHANGED ui
    \/ \E c \in Clients : RegisterCreate(c) /\ UNCHANGED ui
    \/ \E c \in Clients, id \in ResourceIds, n \in BoundaryNicknames :
            PutNickname(c, id, n) /\ UNCHANGED ui

SpecBoundary == Init /\ [][NextBoundary]_vars

(***************************************************************************)
(* The server given one address in two spellings.                          *)
(***************************************************************************)
NextCase ==
    \/ \E c \in Clients, e \in CaseEmails :
            RegisterStart(c, e, SessionPassword) /\ UNCHANGED ui
    \/ \E c \in Clients : RegisterCreate(c) /\ UNCHANGED ui
    \/ \E c \in Clients, e \in CaseEmails :
            Login(c, e, SessionPassword) /\ UNCHANGED ui
    \/ \E c \in Clients, s \in Subjects, e \in CaseEmails :
            OAuthStart(c, s, e) /\ UNCHANGED ui
    \/ \E c \in Clients : OAuthUpsert(c) /\ UNCHANGED ui

SpecCase == Init /\ [][NextCase]_vars

(***************************************************************************)
(* The server on stores that may fail: one account, and each store call    *)
(* of a request free to fail.                                              *)
(***************************************************************************)
NextFault ==
    \/ \E c \in Clients :
            RegisterStart(c, SessionEmail, SessionPassword) /\ UNCHANGED ui
    \/ \E c \in Clients : RegisterCreate(c) /\ UNCHANGED ui
    \/ \E c \in Clients :
            Login(c, SessionEmail, SessionPassword) /\ UNCHANGED ui
    \/ \E c \in Clients : Me(c) /\ UNCHANGED ui
    \/ \E c \in Clients : Logout(c) /\ UNCHANGED ui
    \/ \E c \in Clients, id \in ResourceIds :
            PutNickname(c, id, Padded(Ada)) /\ UNCHANGED ui
    \/ \E c \in Clients, op \in RestoredOps, f \in RestoreFaults :
            RestoreFails(c, op, f) /\ UNCHANGED ui
    \/ \E c \in Clients, f \in LogoutFaults : LogoutFails(c, f) /\ UNCHANGED ui
    \/ \E c \in Clients :
            RegisterLookupFails(c, SessionEmail, SessionPassword) /\ UNCHANGED ui
    \/ \E c \in Clients, id \in ResourceIds :
            PutNicknameUpdateFails(c, id, Padded(Ada)) /\ UNCHANGED ui

SpecFault == Init /\ [][NextFault]_vars

(***************************************************************************)
(* The client application in two browsers against the server.  A call the  *)
(* client has sent is answered, and the continuation of an answered call   *)
(* runs: the steps that settle a call are weakly fair.                     *)
(***************************************************************************)
NextClient ==
    \/ \E c \in Clients : UseEffect(c)
    \/ \E c \in Clients : RefreshResolves(c)
    \/ \E c \in Clients, f \in RestoreFaults : RefreshRejects(c, f)
    \/ \E c \in Clients : RefreshFinally(c)
    \/ \E c \in Clients : ClientRegister(c, SessionEmail, SessionPassword)
    \/ \E c \in Clients : ClientRegisterSettles(c)
    \/ \E c \in Clients, p \in {SessionPassword, ""} :
            ClientLogin(c, SessionEmail, p)
    \/ \E c \in Clients : ClientLogout(c)

RefreshSettles(c) ==
    RefreshResolves(c) \/ \E f \in RestoreFaults : RefreshRejects(c, f)

SpecClient ==
    /\ Init
    /\ [][NextClient]_vars
    /\ \A c \in Clients : /\ WF_vars(RefreshSettles(c))
                          /\ WF_vars(RefreshFinally(c))
                          /\ WF_vars(ClientRegisterSettles(c))

(***************************************************************************)
(* Vocabulary of the properties.                                           *)
(***************************************************************************)
\* The step binds no session: no cookie is issued and every client's
\* session resolves to the principal it resolved to before.
BindsNothing ==
    /\ cookie' = cookie
    /\ \A c \in Clients : SessionPrincipal(c)' = SessionPrincipal(c)

IsInvalidCredentials(r) ==
    /\ r.status = 401
    /\ r.error = "Invalid Credentials"
    /\ r.user = NoUser

\* The step just taken answered a login request the login schema accepts.
LoginAnswered(r) ==
    /\ r.op = "login"
    /\ LoginSchemaOk(r.req.email, r.req.password)

(***************************************************************************)
(* C1: for a Principal with a passwordHash, a login with its email        *)
(* authenticates only with the registered password: a login that answers  *)
(* 200 for a Principal presented the password its hash was made from.     *)
(***************************************************************************)
C1_OnlyRegisteredPasswordAuthenticates ==
    (last.op = "login" /\ last.status = 200) =>
        FindById(last.user.id).passwordHash = Argon2Hash(last.req.password)

(***************************************************************************)
(* C2: a login with an unknown email, with a known email and a wrong       *)
(* password, and with the email of an OAuth-only Principal all answer the *)
(* same 401 'Invalid Credentials' and bind no session.                     *)
(***************************************************************************)
C2_LoginFailuresIndistinguishable ==
    [][ (/\ LoginAnswered(last')
         /\ LET row == FindByEmail(last'.req.email) IN
            \/ row = NoUser
            \/ row.passwordHash = NULL
            \/ row.passwordHash # Argon2Hash(last'.req.password))
        => (IsInvalidCredentials(last') /\ BindsNothing) ]_vars

(***************************************************************************)
(* C3: a Principal without a passwordHash never authenticates through the *)
(* local login: every login with its email fails and binds no session,    *)
(* and every such login the schema accepts, whatever its password,        *)
(* answers 401 'Invalid Credentials'.                                      *)
(***************************************************************************)
C3_OAuthOnlyNeverLogsInLocally ==
    [][ (/\ last'.op = "login"
         /\ FindByEmail(last'.req.email) # NoUser
         /\ FindByEmail(last'.req.email).passwordHash = NULL)
        => (/\ last'.status # 200
            /\ BindsNothing
            /\ LoginAnswered(last') => IsInvalidCredentials(last')) ]_vars

C3_Witness ==
    /\ last.op = "login"
    /\ IsInvalidCredentials(last)
    /\ FindByEmail(last.req.email) # NoUser
    /\ FindByEmail(last.req.email).passwordHash = NULL
    /\ FindByEmail(last.req.email).providerId # NULL

(***************************************************************************)
(* C4: a register request (one the schema accepts) for an email that      *)
(* already belongs to a Principal is answered 400 'Email already          *)
(* registered' at once; it changes and creates no Principal and binds no  *)
(* session.                                                                *)
(***************************************************************************)
\* Client c's register request for email e arrives in this step.
RegisterArrives(c, e) ==
    /\ inflight[c] = Idle
    /\ \/ /\ last'.op = "register"
          /\ last'.client = c
          /\ last'.req.email = e
          /\ RegisterSchemaOk(last'.req.email, last'.req.password)
       \/ /\ inflight'[c] # Idle
          /\ inflight'[c].op = "register"
          /\ inflight'[c].email = e

C4_RegisterTakenEmailFails ==
    [][ \A c \in Clients, e \in ValidEmails :
            (RegisterArrives(c, e) /\ FindByEmail(e) # NoUser)
            => (/\ last'.op = "register"
                /\ last'.status = 400
                /\ last'.error = "Email already registered"
                /\ last'.user = NoUser
                /\ users' = users
                /\ BindsNothing) ]_vars

C4_Witness ==
    /\ last.op = "register"
    /\ last.status = 400
    /\ last.error = "Email already registered"
    /\ FindByEmail(last.req.email) # NoUser

(***************************************************************************)
(* C5: in every reachable state, whatever the interleaving of register    *)
(* requests and OAuth callbacks, no two Principals have the same email.   *)
(***************************************************************************)
C5_EmailUnique ==
    \A i \in Ids, j \in Ids : users[i].email = users[j].email => i = j

\* A create was rejected by the index after its request passed the check.
C5_Witness ==
    /\ last.op = "register"
    /\ last.status = 500
    /\ FindByEmail(last.req.email) # NoUser

(***************************************************************************)
(* C6: register fails only with validation-error or email-taken; the      *)
(* loser of a race of two register requests for one unused email fails    *)
(* with email-taken.                                                       *)
(***************************************************************************)
C6_RegisterFailsOnlyAsDocumented ==
    (last.op = "register" /\ last.status # 200) =>
        /\ last.status = 400
        /\ last.error \in {"Invalid input", "Email already registered"}

(***************************************************************************)
(* C7: two OAuth callbacks with the same (provider, subject, email) for a *)
(* subject not seen before create one Principal in total: after the       *)
(* upsert of either exactly one Principal carries that identity, an upsert *)
(* inserts a row only when no Principal has the email, and the callback   *)
(* whose upsert comes second changes nothing and resolves to the          *)
(* Principal the first created.                                           *)
(***************************************************************************)
\* Client c's OAuth callback runs its upsert in this step.
UpsertStepBy(c) ==
    /\ inflight[c] # Idle
    /\ inflight[c].op = "oauth"
    /\ inflight'[c] = Idle

Carriers(table, subject, e) ==
    {i \in 1..Len(table) : /\ table[i].provider = "google"
                           /\ table[i].providerId = subject
                           /\ table[i].email = e}

C7_ConcurrentCallbacksCreateOnePrincipal ==
    [][ \A c \in Clients : UpsertStepBy(c) =>
            LET r == inflight[c] IN
            /\ Cardinality(Carriers(users', r.subject, r.email)) = 1
            /\ Len(users') =
                    Len(users) + (IF FindByEmail(r.email) = NoUser THEN 1 ELSE 0)
            /\ Carriers(users, r.subject, r.email) # {} =>
                    /\ users' = users
                    /\ last'.user.id \in Carriers(users, r.subject, r.email) ]_vars

\* The second of two racing callbacks has run its upsert: its findFirst had
\* found no row, its upsert met the row the first callback created.
C7_Witness ==
    /\ last.op = "oauth"
    /\ last.req.via = "upsert"
    /\ last.req.prior # NoUser
    /\ last.req.prior.provider = "google"
    /\ last.req.prior.providerId = last.req.subject
    /\ last.req.prior.passwordHash = NULL
    /\ Cardinality(Carriers(users, last.req.subject, last.req.email)) = 1

(***************************************************************************)
(* C8: an OAuth callback whose email is that of an existing local-password *)
(* Principal, for a subject no Principal carries, attaches provider and   *)
(* providerId to that Principal and resolves to its id; no Principal is   *)
(* created and nothing else changes.                                      *)
(***************************************************************************)
C8_CallbackLinksLocalPrincipal ==
    [][ \A c \in Clients : UpsertStepBy(c) =>
            LET r == inflight[c]
                row == FindByEmail(r.email)
            IN  (/\ row # NoUser
                 /\ row.passwordHash # NULL
                 /\ FindFirstByProvider("google", r.subject) = NoUser)
                => (/\ users' = [users EXCEPT ![row.id].provider = "google",
                                              ![row.id].providerId = r.subject]
                    /\ Len(users') = Len(users)
                    /\ last'.status = 302
                    /\ last'.location = ClientOrigin
                    /\ last'.user.id = row.id
                    /\ SessionPrincipal(c)' = row.id) ]_vars

C8_Witness ==
    /\ last.op = "oauth"
    /\ last.req.via = "upsert"
    /\ last.req.prior # NoUser
    /\ last.req.prior.passwordHash # NULL
    /\ last.req.prior.providerId = NULL
    /\ last.user.id = last.req.prior.id
    /\ FindById(last.user.id).providerId = last.req.subject

(***************************************************************************)
(* C9: in every reachable state at most one Principal carries a given     *)
(* (provider, providerId) pair.                                            *)
(***************************************************************************)
C9_ProviderSubjectUnique ==
    \A i \in Ids, j \in Ids :
        (/\ users[i].providerId # NULL
         /\ users[i].provider = users[j].provider
         /\ users[i].providerId = users[j].providerId) => i = j

(***************************************************************************)
(* C10: a GET or PUT nickname by an authenticated Principal for a resource *)
(* id other than its own is answered 403 'Forbidden' and leaves every     *)
(* field of every Principal unchanged.                                     *)
(***************************************************************************)
C10_NonOwnerForbidden ==
    [][ (/\ last'.op \in {"getNickname", "putNickname"}
         /\ SessionPrincipal(last'.client) # 0
         /\ SessionPrincipal(last'.client) # last'.req.id)
        => (/\ last'.status = 403
            /\ last'.error = "Forbidden"
            /\ users' = users) ]_vars

\* A PUT by an authenticated Principal on another, existing Principal.
C10_Witness ==
    /\ last.op = "putNickname"
    /\ last.status = 403
    /\ last.req.as # NoUser
    /\ last.req.id \in Ids
    /\ NicknameSchemaOk(last.req.nickname)

(***************************************************************************)
(* C11: on the nickname routes authentication is checked before           *)
(* ownership: a request without a resolved principal is answered 401      *)
(* 'Unauthorized' for every resource id, never 403; 403 is answered       *)
(* exactly when a principal is resolved and its id differs from the       *)
(* resource id, and the route goes on only when the two ids are equal.    *)
(***************************************************************************)
C11_AuthenticationBeforeOwnership ==
    [][ last'.op \in {"getNickname", "putNickname"} =>
            LET p == SessionPrincipal(last'.client) IN
            /\ p = 0 => (/\ last'.status = 401
                         /\ last'.error = "Unauthorized"
                         /\ users' = users)
            /\ last'.status = 403 <=> (p # 0 /\ p # last'.req.id)
            /\ last'.status \in {200, 400} => p = last'.req.id ]_vars

\* A request without a principal for the id of an existing Principal.
C11_Witness ==
    /\ last.op \in {"getNickname", "putNickname"}
    /\ last.status = 401
    /\ last.req.as = NoUser
    /\ last.req.id \in Ids

(***************************************************************************)
(* C14: POST /auth/logout always answers 200 {ok}; the GET /auth/me the    *)
(* same client sends next answers user null; and a logout whose request    *)
(* presents no stored session leaves the User table and the session store  *)
(* as they were, so a repeated logout changes nothing.                     *)
(***************************************************************************)
C14_LogoutTerminatesAndIsIdempotent ==
    [][ /\ \A c \in Clients :
              (last'.op = "logout" /\ last'.client = c) =>
                /\ last'.status = 200
                /\ last'.error = ""
                /\ RequestUser(c)' = NoUser
                /\ cookie[c] \notin DOMAIN sessions =>
                        (users' = users /\ sessions' = sessions)
        /\ (/\ last.op = "logout"
            /\ last'.op = "me"
            /\ last'.client = last.client) =>
                (last'.status = 200 /\ last'.user = NoUser)
        /\ (/\ last.op = "logout"
            /\ last'.op = "logout"
            /\ last'.client = last.client) =>
                (/\ last'.status = 200
                 /\ users' = users /\ sessions' = sessions
                 /\ cookie' = cookie) ]_vars

\* A logout that ended the session of a logged-in user.
C14_Witness ==
    /\ last.op = "logout"
    /\ last.req.as # NoUser
    /\ RequestUser(last.client) = NoUser

(***************************************************************************)
(* C15: a register, login or OAuth callback that succeeds resolved a      *)
(* Principal and leaves the caller's session bound to it: the session     *)
(* resolves to that Principal, and the GET /auth/me the same client sends  *)
(* next returns its id and email.                                          *)
(***************************************************************************)
Succeeded(r) ==
    \/ r.op \in {"register", "login"} /\ r.status = 200
    \/ r.op = "oauth" /\ r.status = 302 /\ r.location = ClientOrigin

C15_SuccessBindsSessionToPrincipal ==
    [][ /\ \A c \in Clients :
              (Succeeded(last') /\ last'.client = c) =>
                /\ last'.user # NoUser
                /\ last'.user.id \in Ids'
                /\ RequestUser(c)' = last'.user
        /\ (/\ Succeeded(last)
            /\ last'.op = "me"
            /\ last'.client = last.client) =>
                (/\ last'.status = 200
                 /\ last'.user # NoUser
                 /\ last'.user.id = last.user.id
                 /\ last'.user.email = last.user.email) ]_vars

\* A login has bound a second client's session to a Principal that another
\* client's session is bound to as well.
C15_Witness ==
    /\ Succeeded(last)
    /\ last.op = "login"
    /\ \A c \in Clients : SessionPrincipal(c) = last.user.id

(***************************************************************************)
(* C17: when an owner's PUT /api/users/:id/nickname with nickname n        *)
(* succeeds, the GET on the same id the same client sends next answers     *)
(* 200 with n stripped of its surrounding whitespace; and the GET a        *)
(* client sends right after its logout answers 401 'Unauthorized'.         *)
(***************************************************************************)
\* The positions of the first and the last character of n that is not
\* whitespace (Len(n) + 1 and 0 when there is none).
FirstInk(n) ==
    CHOOSE i \in 1..(Len(n) + 1) :
        /\ \A k \in 1..(i - 1) : n[k] \in WhiteSpace
        /\ i <= Len(n) => n[i] \notin WhiteSpace

LastInk(n) ==
    CHOOSE j \in 0..Len(n) :
        /\ \A k \in (j + 1)..Len(n) : n[k] \in WhiteSpace
        /\ j >= 1 => n[j] \notin WhiteSpace

\* r is n without its leading and trailing whitespace.
IsTrimOf(r, n) == r = SubSeq(n, FirstInk(n), LastInk(n))

C17_NicknameRoundTrip ==
    [][ /\ (/\ last.op = "putNickname"
            /\ last.status = 200
            /\ last'.op = "getNickname"
            /\ last'.client = last.client
            /\ last'.req.id = last.req.id) =>
                (/\ last'.status = 200
                 /\ IsTrimOf(last'.nickname, last.req.nickname))
        /\ (/\ last.op = "logout"
            /\ last'.op = "getNickname"
            /\ last'.client = last.client) =>
                (last'.status = 401 /\ last'.error = "Unauthorized") ]_vars

\* A GET has returned a nickname that a padded PUT stored.
C17_Witness ==
    /\ last.op = "getNickname"
    /\ last.status = 200
    /\ last.nickname = Ada

(***************************************************************************)
(* C18: a PUT /api/users/:id/nickname, whatever it answers, creates and    *)
(* deletes no Principal, leaves id, email, passwordHash, provider and      *)
(* providerId of every Principal as they were, and leaves the nickname of  *)
(* every Principal other than :id as it was.                               *)
(***************************************************************************)
C18_NicknameUpdateFrame ==
    [][ last'.op = "putNickname" =>
            /\ DOMAIN users' = DOMAIN users
            /\ \A i \in DOMAIN users :
                /\ users'[i].id = users[i].id
                /\ users'[i].email = users[i].email
                /\ users'[i].passwordHash = users[i].passwordHash
                /\ users'[i].provider = users[i].provider
                /\ users'[i].providerId = users[i].providerId
                /\ i # last'.req.id => users'[i].nickname = users[i].nickname
            /\ last'.status # 200 => users' = users ]_vars

\* A successful update of one of two Principals.
C18_Witness ==
    /\ last.op = "putNickname"
    /\ last.status = 200
    /\ Len(users) = 2
    /\ users[last.req.id].nickname = Ada
    /\ \E i \in DOMAIN users : users[i].nickname = <<>>

(***************************************************************************)
(* C12: a request whose sid cookie names a stored session whose expiry     *)
(* has passed is answered as a request without a session: GET /auth/me     *)
(* answers 200 with user null, the nickname routes answer 401              *)
(* 'Unauthorized' and write nothing, and the client is left without a      *)
(* user.                                                                   *)
(***************************************************************************)
C12_ExpiredSessionIsNoSession ==
    [][ \A c \in Clients :
          (/\ last'.op \in {"me", "getNickname", "putNickname"}
           /\ last'.client = c
           /\ cookie[c] \in DOMAIN sessions
           /\ sessions[cookie[c]].expires <= now) =>
                /\ last'.op = "me" =>
                        (last'.status = 200 /\ last'.user = NoUser)
                /\ last'.op # "me" =>
                        (last'.status = 401 /\ last'.error = "Unauthorized")
                /\ users' = users
                /\ RequestUser(c)' = NoUser ]_vars

\* A nickname request for an existing id has presented an expired session.
C12_Witness ==
    /\ last.op \in {"getNickname", "putNickname"}
    /\ last.req.session = "expired"
    /\ last.status = 401
    /\ last.req.id \in Ids

(***************************************************************************)
(* C13: the expiry of a session is fixed when the session is established:  *)
(* no GET /auth/me, nickname GET or PUT, or GET /debug/session changes     *)
(* the expiry of a session that stays in the store.                        *)
(***************************************************************************)
C13_ExpiryIsAbsolute ==
    [][ last'.op \in {"me", "getNickname", "putNickname", "debugSession"} =>
            \A sid \in DOMAIN sessions \cap DOMAIN sessions' :
                sessions'[sid].expires = sessions[sid].expires ]_vars

(***************************************************************************)
(* C16: GET /auth/me always answers 200 without an error, and answers      *)
(* user null when the request carries no sid cookie, a sid the store does  *)
(* not hold, or a session whose stored user id is the id of no row.        *)
(***************************************************************************)
C16_MeNeverErrorsUnauthenticated ==
    [][ \A c \in Clients :
          (last'.op = "me" /\ last'.client = c) =>
                /\ last'.status = 200
                /\ last'.error = ""
                /\ (\/ cookie[c] = 0
                    \/ cookie[c] \notin DOMAIN sessions
                    \/ sessions[cookie[c]].passportUser \notin Ids) =>
                        (last'.user = NoUser /\ RequestUser(c)' = NoUser) ]_vars

\* GET /auth/me on a live session whose Principal was gone: the session was
\* bound by a register or login and has lost its stored user id.
C16_Witness ==
    /\ last.op = "me"
    /\ last.req.session = "live"
    /\ last.user = NoUser
    /\ sessions[cookie[last.client]].userId # 0
    /\ sessions[cookie[last.client]].passportUser = 0

(***************************************************************************)
(* C19: POST /auth/register with a malformed email, or a password of       *)
(* fewer than 8 or more than 128 characters, answers 400 'Invalid input'   *)
(* before the store is reached: no row is created, no request is left      *)
(* waiting on the store, and no session is bound; a well-formed email      *)
(* with a password of 8 to 128 characters, the limits included, is not     *)
(* rejected as invalid input.                                              *)
(***************************************************************************)
C19_RegisterValidation ==
    [][ \A c \in Clients :
          (last'.op = "register" /\ last'.client = c) =>
            IF \/ ~IsEmail(last'.req.email)
               \/ Len(last'.req.password) < 8
               \/ Len(last'.req.password) > 128
                THEN /\ last'.status = 400
                     /\ last'.error = "Invalid input"
                     /\ users' = users
                     /\ inflight' = inflight
                     /\ cookie' = cookie
                     /\ nextSid' = nextSid
                     /\ SessionPrincipal(c)' = SessionPrincipal(c)
                ELSE last'.error # "Invalid input" ]_vars

\* A password of 129 characters has been rejected where one of 128
\* characters had registered.
C19_Witness ==
    /\ last.op = "register"
    /\ last.status = 400
    /\ last.error = "Invalid input"
    /\ IsEmail(last.req.email)
    /\ Len(last.req.password) = 129
    /\ \E i \in DOMAIN users : Len(users[i].passwordHash) = Len(Argon2Hash("")) + 128

(***************************************************************************)
(* C20: an owner's PUT /api/users/:id/nickname stores the body's nickname  *)
(* without its surrounding whitespace when what remains has at most 50     *)
(* characters, the empty string included, and otherwise answers 400        *)
(* 'Invalid input' and stores nothing; every stored nickname has at most   *)
(* 50 characters and neither starts nor ends with whitespace.              *)
(***************************************************************************)
TrimFits(n) == LastInk(n) - FirstInk(n) + 1 <= 50

C20_NicknameStoredTrimmed ==
    [][ /\ (last'.op = "putNickname" /\ last'.status \notin {401, 403}) =>
            IF TrimFits(last'.req.nickname)
                THEN /\ last'.status = 200
                     /\ IsTrimOf(users'[last'.req.id].nickname,
                                 last'.req.nickname)
                ELSE /\ last'.status = 400
                     /\ last'.error = "Invalid input"
                     /\ users' = users
        /\ \A i \in DOMAIN users' :
            LET n == users'[i].nickname IN
            /\ Len(n) <= 50
            /\ n # <<>> => (n[1] \notin WhiteSpace /\ n[Len(n)] \notin WhiteSpace)
      ]_vars

\* A padded nickname of 52 characters has been stored as its 50 inner ones.
C20_Witness ==
    /\ last.op = "putNickname"
    /\ last.status = 200
    /\ Len(last.req.nickname) = 52
    /\ Len(users[last.req.id].nickname) = 50

(***************************************************************************)
(* C21: a Google callback whose profile carries no email is redirected to  *)
(* /auth/failure without reaching the store: no row is created or         *)
(* changed, no request is left waiting on the store, and the caller's      *)
(* cookie and the user its session resolves to stay as they were.          *)
(***************************************************************************)
C21_OAuthWithoutEmailFails ==
    [][ \A c \in Clients :
          (/\ last'.op = "oauth"
           /\ last'.client = c
           /\ last'.req.email \in {NULL, ""}) =>
                /\ last'.status = 302
                /\ last'.location = "/auth/failure"
                /\ last'.user = NoUser
                /\ users' = users
                /\ inflight' = inflight
                /\ cookie' = cookie
                /\ nextSid' = nextSid
                /\ RequestUser(c)' = RequestUser(c) ]_vars

\* A callback without an email, sent on a session bound to a Principal.
C21_Witness ==
    /\ last.op = "oauth"
    /\ last.req.email = NULL
    /\ last.location = "/auth/failure"
    /\ SessionPrincipal(last.client) # 0

(***************************************************************************)
(* C22: the body of a successful register or login, and the body of a     *)
(* GET /auth/me that returns a user, has the fields id, email and          *)
(* nickname and no others: not passwordHash, provider or providerId.       *)
(***************************************************************************)
C22_ResponsesArePublicProjection ==
    (/\ last.op \in {"register", "login", "me"}
     /\ last.status = 200
     /\ last.user # NoUser) =>
        /\ DOMAIN last.user = {"id", "email", "nickname"}
        /\ last.user.id \in Ids
        /\ last.user.email = users[last.user.id].email
        /\ last.user.nickname = users[last.user.id].nickname

\* GET /auth/me has returned a Principal that has a password hash and a
\* provider link.
C22_Witness ==
    /\ last.op = "me"
    /\ last.user # NoUser
    /\ TruthyString(users[last.user.id].passwordHash)
    /\ users[last.user.id].provider = "google"

(***************************************************************************)
(* C23: emails that differ only in letter case are one identity: no two    *)
(* rows of the User table hold emails that are equal once lower-cased.     *)
(***************************************************************************)
\* The lower-case spelling of an email of the inputs.
CaseFold(e) == IF e = "A@x.com" THEN "a@x.com" ELSE e

C23_EmailCaseNormalized ==
    \A i, j \in Ids :
        CaseFold(users[i].email) = CaseFold(users[j].email) => i = j

\* The response r belongs to a request that met the failure of one of the
\* store calls in 'faults'.
MetFault(r, faults) ==
    /\ r.op \in {"register", "login", "me", "logout",
                 "getNickname", "putNickname"}
    /\ "fault" \in DOMAIN r.req
    /\ r.req.fault \in faults

(***************************************************************************)
(* C24: a request whose session could not be restored because the session  *)
(* store or the User table failed goes on without a user: GET /auth/me     *)
(* answers 200 with user null and the nickname routes answer 401           *)
(* 'Unauthorized'.                                                         *)
(***************************************************************************)
C24_RestoreFailsClosed ==
    MetFault(last, RestoreFaults) =>
        IF last.op = "me"
            THEN last.status = 200 /\ last.user = NoUser
            ELSE last.status = 401 /\ last.error = "Unauthorized"

C26_StoreFailureIsInternalFailure ==
    MetFault(last, {"findUnique", "update"}) =>
        last.status = 500 /\ last.error = "Server error"

(***************************************************************************)
(* C27: a register, login or Google callback that does not succeed         *)
(* (400, 401, 500, or the redirect to /auth/failure) binds no session: it  *)
(* issues no session identifier and no cookie, and every stored session    *)
(* that holds a user id afterwards held that same user id before.          *)
(***************************************************************************)
C27_FailureBindsNoSession ==
    [][ (/\ last'.op \in {"register", "login", "oauth"}
         /\ ~Succeeded(last')) =>
            /\ cookie' = cookie
            /\ nextSid' = nextSid
            /\ \A sid \in DOMAIN sessions' :
                sessions'[sid].passportUser # 0 =>
                    /\ sid \in DOMAIN sessions
                    /\ sessions[sid].passportUser = sessions'[sid].passportUser
            /\ \A c \in Clients :
                SessionPrincipal(c)' \in {0, SessionPrincipal(c)} ]_vars

\* A registration has failed on the unique index, sent by a client
\* without a session while another client holds one.
C27_Witness ==
    /\ last.op = "register"
    /\ last.status = 500
    /\ SessionPrincipal(last.client) = 0
    /\ \E c \in Clients : SessionPrincipal(c) # 0

(***************************************************************************)
(* C28: a session identifier that was issued and is no longer active      *)
(* (its entry has left the store, by logout or otherwise, or the expiry    *)
(* of its entry has passed) never becomes active again: a logout ends the  *)
(* session it was sent on, an ended session stays ended, and a request     *)
(* presenting its identifier resolves to no principal.                     *)
(***************************************************************************)
Ended(sid) ==
    /\ sid < nextSid
    /\ sid \in DOMAIN sessions => sessions[sid].expires <= now

C28_EndedSessionStaysEnded ==
    [][ \A sid \in 1..MaxSid :
          /\ \A c \in Clients :
                (/\ last'.op = "logout"
                 /\ last'.client = c
                 /\ cookie[c] = sid) => Ended(sid)'
          /\ Ended(sid) =>
                /\ Ended(sid)'
                /\ \A c \in Clients :
                    cookie'[c] = sid => RequestUser(c)' = NoUser
          /\ \A c \in Clients :
                (/\ Ended(sid)
                 /\ cookie[c] = sid
                 /\ last'.op = "me"
                 /\ last'.client = c) => last'.user = NoUser ]_vars

\* GET /auth/me under the replayed cookie of a session that has left the store,
\* while the Principal has another, active session.
C28_Witness ==
    /\ last.op = "me"
    /\ last.req.session = "unknown"
    /\ last.user = NoUser
    /\ now = 0
    /\ \E c \in Clients : SessionPrincipal(c) # 0

(***************************************************************************)
(* C29: a register, login or Google callback that succeeds leaves the      *)
(* caller with a session identifier that was never issued before: it is    *)
(* the identifier of no stored session, be it unauthenticated (such as     *)
(* one GET /debug/session created) or bound to another user, and of no     *)
(* client's cookie, the caller's own included; the session the request     *)
(* came in on is gone from the store.                                      *)
(***************************************************************************)
C29_EstablishIssuesFreshIdentifier ==
    [][ \A c \in Clients :
          (Succeeded(last') /\ last'.client = c) =>
                /\ cookie'[c] \notin DOMAIN sessions
                /\ cookie'[c] \notin {cookie[d] : d \in Clients}
                /\ cookie'[c] >= nextSid
                /\ cookie'[c] \in DOMAIN sessions'
                /\ sessions'[cookie'[c]].passportUser = last'.user.id
                /\ cookie[c] # 0 => cookie[c] \notin DOMAIN sessions' ]_vars

\* A registration has succeeded while the store held the unauthenticated
\* session of a GET /debug/session.
C29_Witness ==
    /\ Succeeded(last)
    /\ last.op = "register"
    /\ \E sid \in DOMAIN sessions :
        /\ sid # cookie[last.client]
        /\ sessions[sid].passportUser = 0
        /\ sessions[sid].views = 1

(***************************************************************************)
(* C30: a Google callback for which findFirst found no row of the subject  *)
(* and whose email is in no row adds exactly one row: provider 'google',   *)
(* providerId the subject, email the asserted email, nickname empty,       *)
(* passwordHash null; every row that was there stays as it was, and the    *)
(* callback answers with the new row's id.                                 *)
(***************************************************************************)
C30_CallbackCreatesPrincipal ==
    [][ (/\ last'.op = "oauth"
         /\ last'.req.email \notin {NULL, ""}
         /\ last'.req.via = "upsert"
         /\ \A i \in DOMAIN users : users[i].email # last'.req.email) =>
            /\ Len(users') = Len(users) + 1
            /\ \A i \in DOMAIN users : users'[i] = users[i]
            /\ LET row == users'[Len(users')] IN
                /\ row.provider = "google"
                /\ row.providerId = last'.req.subject
                /\ row.email = last'.req.email
                /\ row.nickname = <<>>
                /\ row.passwordHash = NULL
                /\ row.id \notin {users[i].id : i \in DOMAIN users}
                /\ last'.user.id = row.id
                /\ last'.user.email = row.email ]_vars

\* A callback has created a Principal beside an existing local one.
C30_Witness ==
    /\ last.op = "oauth"
    /\ last.req.via = "upsert"
    /\ last.req.prior = NoUser
    /\ Len(users) = 2
    /\ last.user.id = 2
    /\ users[1].provider = "local"
    /\ users[2].providerId = last.req.subject

(***************************************************************************)
(* C31: a Google callback whose subject is the providerId of a 'google'    *)
(* row is answered at once with a row of that subject and writes nothing   *)
(* to the User table, whatever email the profile asserts: another email    *)
(* than the row's, or the email of another row.                            *)
(***************************************************************************)
\* Client c's callback for subject s arrives in this step.
CallbackArrives(c, s) ==
    /\ inflight[c] = Idle
    /\ \/ /\ last'.op = "oauth"
          /\ last'.client = c
          /\ last'.req.subject = s
          /\ last'.req.email \notin {NULL, ""}
       \/ /\ inflight'[c] # Idle
          /\ inflight'[c].op = "oauth"
          /\ inflight'[c].subject = s

HoldersOf(s) ==
    {i \in DOMAIN users : users[i].provider = "google" /\ users[i].providerId = s}

C31_KnownSubjectReturnsPrincipalUnchanged ==
    [][ \A c \in Clients, s \in LinkSubjects :
            (CallbackArrives(c, s) /\ HoldersOf(s) # {}) =>
                /\ last'.op = "oauth"
                /\ last'.status = 302
                /\ last'.location = ClientOrigin
                /\ last'.user.id \in HoldersOf(s)
                /\ last'.user.email = users[last'.user.id].email
                /\ users' = users ]_vars

\* The callback asserted the email of another Principal than the one its
\* subject identifies.
C31_Witness ==
    /\ last.op = "oauth"
    /\ last.req.via = "findFirst"
    /\ last.user # NoUser
    /\ last.user.email # last.req.email
    /\ FindByEmail(last.req.email) # NoUser
    /\ FindByEmail(last.req.email).id # last.user.id

(***************************************************************************)
(* C32: GET /auth/me on a live session returns id, email and nickname as   *)
(* the row of the stored user id holds them at the time of the request:    *)
(* the GET /auth/me that directly follows a successful PUT nickname, on    *)
(* any session of the updated Principal, returns the nickname the PUT      *)
(* stored.                                                                 *)
(***************************************************************************)
C32_MeReadsCurrentPrincipal ==
    [][ \A c \in Clients :
          (last'.op = "me" /\ last'.client = c) =>
            /\ \A i \in DOMAIN users :
                (/\ cookie[c] \in DOMAIN sessions
                 /\ sessions[cookie[c]].expires > now
                 /\ sessions[cookie[c]].passportUser = i) =>
                    /\ last'.user # NoUser
                    /\ last'.user.id = i
                    /\ last'.user.email = users[i].email
                    /\ last'.user.nickname = users[i].nickname
            /\ (/\ last.op = "putNickname"
                /\ last.status = 200
                /\ last'.user # NoUser
                /\ last'.user.id = last.req.id) =>
                    last'.user.nickname = last.nickname ]_vars

\* GET /auth/me has returned a changed nickname while both clients hold a
\* session of that Principal.
C32_Witness ==
    /\ last.op = "me"
    /\ last.user # NoUser
    /\ last.user.nickname = Ada
    /\ \A c \in Clients : SessionPrincipal(c) = last.user.id
    /\ cookie["c1"] # cookie["c2"]

(***************************************************************************)
(* C33: every stored session that holds the user id of a logged-in        *)
(* Principal has its userId field set to that same id.                     *)
(***************************************************************************)
C33_SessionUserIdMatchesPrincipal ==
    \A sid \in DOMAIN sessions :
        sessions[sid].passportUser # 0 =>
            sessions[sid].userId = sessions[sid].passportUser

(***************************************************************************)
(* C35: no response body of any endpoint, the debug endpoints included,    *)
(* carries a Principal's passwordHash: every user object a response holds, *)
(* alone or in a list, is without that column.                             *)
(***************************************************************************)
\* The user objects in the body of response r.
BodyUsers(r) ==
    (IF "rows" \in DOMAIN r THEN {r.rows[i] : i \in DOMAIN r.rows} ELSE {})
    \cup (IF "user" \in DOMAIN r /\ r.user # NoUser THEN {r.user} ELSE {})

C35_NoResponseCarriesPasswordHash ==
    \A u \in BodyUsers(last) : "passwordHash" \notin DOMAIN u

(***************************************************************************)
(* C36: a callback that links an existing Principal by email changes only  *)
(* provider and providerId of that row: its id, email, nickname and        *)
(* passwordHash, and every other row, are as before; and a local login     *)
(* with the password a linked row's hash was made from succeeds as that    *)
(* Principal.                                                              *)
(***************************************************************************)
\* The step answered a callback whose upsert met an existing row.
LinkedByEmail ==
    /\ last'.op = "oauth"
    /\ last'.req.via = "upsert"
    /\ last'.req.prior # NoUser

C36_LinkChangesOnlyProvider ==
    [][ /\ LinkedByEmail =>
            LET i == last'.req.prior.id IN
            /\ Len(users') = Len(users)
            /\ \A j \in DOMAIN users : j # i => users'[j] = users[j]
            /\ users'[i].id = users[i].id
            /\ users'[i].email = users[i].email
            /\ users'[i].nickname = users[i].nickname
            /\ users'[i].passwordHash = users[i].passwordHash
            /\ users'[i].provider = "google"
            /\ users'[i].providerId = last'.req.subject
        /\ \A i \in DOMAIN users :
            (/\ last'.op = "login"
             /\ users[i].email = last'.req.email
             /\ users[i].providerId # NULL
             /\ users[i].passwordHash = Argon2Hash(last'.req.password)) =>
                /\ last'.status = 200
                /\ last'.user.id = i ]_vars

\* A local login succeeded as a Principal that registered and was linked.
C36_Witness ==
    /\ last.op = "login"
    /\ last.status = 200
    /\ users[last.user.id].providerId # NULL
    /\ users[last.user.id].passwordHash = Argon2Hash(last.req.password)

(***************************************************************************)
(* C37: once a Principal has a providerId, no step replaces it with a      *)
(* different subject; a callback with a new subject and the email of a     *)
(* linked Principal leaves that Principal's link as it is.                 *)
(***************************************************************************)
C37_LinkIsNeverReplaced ==
    [][ \A i \in DOMAIN users :
            (users[i].providerId # NULL /\ i \in DOMAIN users') =>
                users'[i].providerId = users[i].providerId ]_vars

(***************************************************************************)
(* C38: a passwordHash is written only by the register that creates the    *)
(* row.  No step sets, changes or clears the passwordHash of a row that    *)
(* exists; a row that appears with a hash is the one a successful register *)
(* answers with; and a register for the email of a row without a hash is   *)
(* answered 400 "Email already registered" and writes nothing.             *)
(***************************************************************************)
C38_PasswordHashWrittenOnceByRegister ==
    [][ /\ \A i \in DOMAIN users :
            i \in DOMAIN users' =>
                users'[i].passwordHash = users[i].passwordHash
        /\ \A i \in (DOMAIN users') \ (DOMAIN users) :
            users'[i].passwordHash # NULL =>
                /\ last'.op = "register"
                /\ last'.status = 200
                /\ last'.user.id = i
                /\ users'[i].passwordHash = Argon2Hash(last'.req.password)
        /\ \A c \in Clients, e \in ValidEmails :
            (/\ RegisterArrives(c, e)
             /\ FindByEmail(e) # NoUser
             /\ FindByEmail(e).passwordHash = NULL) =>
                /\ last'.op = "register"
                /\ last'.status = 400
                /\ last'.error = "Email already registered"
                /\ users' = users ]_vars

\* A register for the email of a Principal a callback created was refused.
C38_Witness ==
    /\ last.op = "register"
    /\ last.status = 400
    /\ last.error = "Email already registered"
    /\ FindByEmail(last.req.email) # NoUser
    /\ FindByEmail(last.req.email).passwordHash = NULL
    /\ FindByEmail(last.req.email).provider = "google"

(***************************************************************************)
(* C39: a logout ends the caller's session and no other: every other       *)
(* stored session stays as it is, those of the same Principal included.    *)
(* More generally, a request of one client leaves every session other than *)
(* the one its cookie names resolving to the Principal it resolved to.     *)
(***************************************************************************)
\* The Principal the stored session sid resolves to (0: none).
Resolves(sid) ==
    IF sid \in DOMAIN sessions /\ sessions[sid].expires > now
                               /\ FindById(sessions[sid].passportUser) # NoUser
        THEN sessions[sid].passportUser
        ELSE 0

\* The step is a step of a request of client c.
RequestStepOf(c) ==
    \/ inflight'[c] # inflight[c]
    \/ /\ last'.op \notin {"pending", "tick", "reset", "cookie", "init"}
       /\ last'.client = c

C39_OtherSessionsUntouched ==
    [][ \A c \in Clients :
            /\ (last'.op = "logout" /\ last'.client = c) =>
                    /\ cookie[c] \notin DOMAIN sessions'
                    /\ \A sid \in (DOMAIN sessions) \ {cookie[c]} :
                            /\ sid \in DOMAIN sessions'
                            /\ sessions'[sid] = sessions[sid]
            /\ RequestStepOf(c) =>
                    \A sid \in (DOMAIN sessions) \ {cookie[c]} :
                        Resolves(sid) # 0 => Resolves(sid)' = Resolves(sid)
      ]_vars

\* A client logged out of a Principal that another client's session still
\* resolves to.
C39_Witness ==
    /\ last.op = "logout"
    /\ last.req.as # NoUser
    /\ cookie[last.client] = 0
    /\ \E c \in Clients \ {last.client} :
            /\ cookie[c] # 0
            /\ Resolves(cookie[c]) = last.req.as.id

(***************************************************************************)
(* C34: in the client, Protected never returns its children while the auth *)
(* check is loading or while user is null; once the effect has run,        *)
(* loading becomes false, whether GET /auth/me answers a user, null or an  *)
(* error; and a refresh whose call failed leaves user null.                *)
(***************************************************************************)
ChildrenOnlyForUser ==
    \A c \in Clients :
        ui[c].view = "children" => (~ui[c].loading /\ ui[c].user # NoUser)

\* A refresh of client c leaves its await in this step.
RefreshSettled(c) == ui'[c].awaiting < ui[c].awaiting

C34_ProtectedWaitsForAuthCheck ==
    /\ []ChildrenOnlyForUser
    /\ \A c \in Clients : (ui[c].effects > 0) ~> (~ui[c].loading)
    /\ [][ \A c \in Clients :
                /\ RefreshSettled(c) =>
                        /\ last'.op = "me"
                        /\ last'.client = c
                        /\ ui'[c].user =
                             (IF last'.status = 200 THEN last'.user ELSE NoUser)
                /\ ui'[c].loading => ui[c].loading ]_vars

\* One browser shows the protected page to its user while the other's
\* refresh has just failed and left it without a user.
C34_Witness ==
    /\ last.op = "me"
    /\ last.status = 500
    /\ ui[last.client].user = NoUser
    /\ ui[last.client].finishing > 0
    /\ \E c \in Clients \ {last.client} :
            /\ ui[c].view = "children"
            /\ ui[c].user # NoUser

====
